---- MODULE Spec2Model ----
(***************************************************************************)
(* The docker driver's cookie (api/agent/drivers/docker/cookie.go): one    *)
(* cookie per task, several cookies sharing the driver's prefork pool, its *)
(* network allocator, its image cache and the docker runtime.              *)
(***************************************************************************)
EXTENDS Naturals, Sequences, FiniteSets, TLC

\* The tasks; a cookie is identified by its task's id (c.task.Id()).
Cookies == {"t1", "t2"}

\* The ids the prefork pool and the network allocator can hand out.
PoolIds == {"p1"}
NetIds == {"n1"}

\* The image ids the runtime can report on inspection.
ImageIds == {"i1"}

\* How many times a caller calls CreateContainer on one cookie.
MaxCreateCalls == 2

\* Go's empty string, nil error and nil pointer.
Empty == ""
Nil == "nil"
NoImage == "nil"

\* The errors the cookie's methods return.
ErrNoSuchImage == "docker.ErrNoSuchImage"
ErrImageWithVolume == "ErrImageWithVolume"
ErrCallTimeoutServerBusy == "models.ErrCallTimeoutServerBusy"
ErrRuntime == "runtime error"
ErrAuth == "auth error"
ErrCanceled == "context canceled"
ErrPull == "pull error"

VARIABLES
    tasks,            \* the tasks the driver was given, a cookie each
    drv,              \* the driver: which collaborators it has, its policy
    task,             \* per cookie: the task's settings
    pc,               \* per cookie: the configuration step it is at, ready, or closed
    poolId,           \* cookie.poolId
    netId,            \* cookie.netId
    NetworkMode,      \* cookie.hostOpts.NetworkMode
    Hostname,         \* cookie.opts.Hostname
    CPUQuota,         \* cookie.hostOpts.CPUQuota (an int64)
    CPUPeriod,        \* cookie.hostOpts.CPUPeriod
    image,            \* cookie.image (the record's ID, or NoImage)
    containerCreated, \* cookie.containerCreated
    errC,             \* per cookie: the channel its PullImage is receiving from
    ctxDone,          \* per cookie: the context of its PullImage is cancelled
    exited,           \* log.Fatal has ended the process
    poolFree,         \* the prefork pool: the ids it has not handed out
    netFree,          \* the network allocator: the ids it has not handed out
    containers,       \* the runtime: the ids of the containers that exist
    poolCalls,        \* per cookie: its calls to the prefork pool, in order
    netCalls,         \* per cookie: its calls to the network allocator, in order
    cacheCalls,       \* per cookie: its calls to the image cache, in order
    dockerCalls,      \* per cookie: its ContainerCreate / RemoveContainer calls, in order
    ret,              \* the last method called, on which cookie, and what it returned
    lastValidate,     \* per cookie: what the last ValidateImage returned
    createRets        \* per cookie: what each CreateContainer call returned, in order

cookieVars == <<poolId, netId, NetworkMode, Hostname, CPUQuota, CPUPeriod, image, containerCreated>>
callVars == <<poolCalls, netCalls, cacheCalls, dockerCalls>>
retVars == <<ret, lastValidate, createRets>>
envVars == <<tasks, drv, task>>
pullVars == <<errC, ctxDone>>
vars == <<envVars, pc, cookieVars, pullVars, exited, poolFree, netFree, containers, callVars, retVars>>

NoRet == [cookie |-> "none", op |-> "none", val |-> FALSE, err |-> Nil]
Ret(c, op, val, err) == [cookie |-> c, op |-> op, val |-> val, err |-> err]

\* fmt.Sprintf("container:%s", id)
ContainerMode(id) == "container:" \o id

\* errC when PullImage is not receiving from a channel, and the channel before
\* the puller has sent on it.
NoChan == "no channel"
EmptyChan == "empty"

\* The order in which Driver.CreateCookie runs the configuration steps.
NextStep(step) ==
    CASE step = "configureCPU" -> "configureNetwork"
      [] step = "configureNetwork" -> "configureHostname"
      [] step = "configureHostname" -> "ready"

(***************************************************************************)
(* 64-bit integers, as four 16-bit limbs, the most significant first.      *)
(***************************************************************************)
LimbBase == 65536
Limbs == 1 .. 4
Zero64 == <<0, 0, 0, 0>>

\* The carry out of limb i (into limb i - 1) when x is multiplied by k.
RECURSIVE MulCarry(_, _, _)
MulCarry(x, k, i) ==
    IF i > 4 THEN 0 ELSE (x[i] * k + MulCarry(x, k, i + 1)) \div LimbBase

\* Go's x * k on uint64: the product modulo 2^64.
Uint64Mul(x, k) == [i \in Limbs |-> (x[i] * k + MulCarry(x, k, i + 1)) % LimbBase]

\* The product of x and k as a number: what does not fit in 64 bits, and the
\* 64 bits below it.
MathMul(x, k) == [high |-> MulCarry(x, k, 1), low |-> Uint64Mul(x, k)]

\* The carry out of limb i when 1 is added to the complement of x.
RECURSIVE NegCarry(_, _)
NegCarry(x, i) ==
    IF i > 4 THEN 1 ELSE ((LimbBase - 1 - x[i]) + NegCarry(x, i + 1)) \div LimbBase

\* 2^64 - x, for x # 0.
Negate64(x) == [i \in Limbs |-> ((LimbBase - 1 - x[i]) + NegCarry(x, i + 1)) % LimbBase]

\* Go's int64(x) of a uint64: x when below 2^63, x - 2^64 otherwise; as a sign
\* and a magnitude.
Int64(x) ==
    IF x[1] < LimbBase \div 2
      THEN [neg |-> FALSE, mag |-> x]
      ELSE [neg |-> TRUE, mag |-> Negate64(x)]

\* The CPU requests (milli-CPUs, uint64) tasks are given: none, 800, the
\* largest whose hundredfold fits an int64, the next one, one whose hundredfold
\* passes 2^64, and the largest uint64.
CPUValues ==
    { Zero64, <<0, 0, 0, 800>>, <<327, 44564, 31457, 18350>>, <<327, 44564, 31457, 18351>>,
      <<655, 23592, 62914, 36701>>, <<65535, 65535, 65535, 65535>> }

\* int64(100000), the CFS period configureCPU sets.
CPUPeriodUsec == 100000

\* The state Driver.CreateCookie leaves a new cookie in, before the
\* configuration steps, and the collaborators with nothing handed out.
InitCookies ==
    /\ pc = [c \in Cookies |-> "configureCPU"]
    /\ CPUQuota = [c \in Cookies |-> Int64(Zero64)]
    /\ CPUPeriod = [c \in Cookies |-> 0]
    /\ poolId = [c \in Cookies |-> Empty]
    /\ netId = [c \in Cookies |-> Empty]
    /\ NetworkMode = [c \in Cookies |-> Empty]
    /\ Hostname = [c \in Cookies |-> Empty]
    /\ image = [c \in Cookies |-> NoImage]
    /\ containerCreated = [c \in Cookies |-> FALSE]
    /\ errC = [c \in Cookies |-> NoChan]
    /\ ctxDone = [c \in Cookies |-> FALSE]
    /\ exited = FALSE
    /\ poolFree = PoolIds
    /\ netFree = NetIds
    /\ containers = {}
    /\ poolCalls = [c \in Cookies |-> <<>>]
    /\ netCalls = [c \in Cookies |-> <<>>]
    /\ cacheCalls = [c \in Cookies |-> <<>>]
    /\ dockerCalls = [c \in Cookies |-> <<>>]
    /\ ret = NoRet
    /\ lastValidate = [c \in Cookies |-> NoRet]
    /\ createRets = [c \in Cookies |-> <<>>]

\* One task, under every configuration of the driver and of the task.
Init ==
    /\ tasks = {"t1"}
    /\ drv \in [pool : BOOLEAN, imgCache : BOOLEAN, ImageEnableVolume : BOOLEAN,
                hostname : {"host"}]
    /\ task \in [Cookies -> [DisableNet : BOOLEAN, CPUs : CPUValues, Auther : BOOLEAN]]
    /\ \A c \in Cookies \ tasks :
          task[c] = [DisableNet |-> FALSE, CPUs |-> Zero64, Auther |-> FALSE]
    /\ InitCookies

\* Two tasks of one image sharing the prefork pool, the network allocator and
\* the image cache.
InitShared ==
    /\ tasks = Cookies
    /\ drv \in [pool : {TRUE}, imgCache : {TRUE}, ImageEnableVolume : {FALSE},
                hostname : {"host"}]
    /\ task = [c \in Cookies |->
                 [DisableNet |-> FALSE, CPUs |-> <<0, 0, 0, 800>>, Auther |-> TRUE]]
    /\ InitCookies

\* cookie.configureCPU
configureCPU(c) ==
    /\ c \in tasks
    /\ ~exited
    /\ pc[c] = "configureCPU"
    /\ pc' = [pc EXCEPT ![c] = NextStep("configureCPU")]
    /\ IF task[c].CPUs = Zero64
         THEN UNCHANGED <<CPUQuota, CPUPeriod>>
         ELSE /\ CPUQuota' = [CPUQuota EXCEPT ![c] = Int64(Uint64Mul(task[c].CPUs, 100))]
              /\ CPUPeriod' = [CPUPeriod EXCEPT ![c] = CPUPeriodUsec]
    /\ UNCHANGED <<envVars, pullVars, poolId, netId, NetworkMode, Hostname, image, containerCreated,
                   exited, poolFree, netFree, containers, callVars, retVars>>

\* A collaborator's result when the code does not get to call it.
NoCall == "no call"
NoPoolCall == [id |-> NoCall, err |-> Nil]
NoInspect == [err |-> NoCall, id |-> NoImage, volumes |-> FALSE]

\* What AllocPoolId can return: an id the pool has free, or no id (with or
\* without an error).
AllocPoolIdResults ==
    [id : poolFree, err : {Nil}] \cup [id : {Empty}, err : {Nil, ErrRuntime}]

\* What AllocNetwork can return: an id the allocator has free, or no id.
AllocNetworkResults == netFree \cup {Empty}

\* A configureNetwork that takes no notice of the id the pool returned.
PoolGranted_Ignored(p) == FALSE

\* configureNetwork's test of what AllocPoolId returned: the pool granted an id.
PoolGranted(p) == p.id # Empty

\* cookie.configureNetwork, with p the result of AllocPoolId and n the result
\* of AllocNetwork (NoPoolCall, NoCall when the code does not call them).
configureNetwork(c, p, n) ==
    /\ c \in tasks
    /\ ~exited
    /\ pc[c] = "configureNetwork"
    /\ pc' = [pc EXCEPT ![c] = NextStep("configureNetwork")]
    /\ IF NetworkMode[c] # Empty
         THEN /\ p = NoPoolCall /\ n = NoCall
              /\ UNCHANGED <<NetworkMode, poolId, netId, poolFree, netFree, poolCalls, netCalls>>
       ELSE IF task[c].DisableNet
         THEN /\ p = NoPoolCall /\ n = NoCall
              /\ NetworkMode' = [NetworkMode EXCEPT ![c] = "none"]
              /\ UNCHANGED <<poolId, netId, poolFree, netFree, poolCalls, netCalls>>
       ELSE /\ IF drv.pool
                 THEN /\ p \in AllocPoolIdResults
                      /\ poolCalls' = [poolCalls EXCEPT ![c] =
                             Append(@, [fn |-> "AllocPoolId", id |-> p.id])]
                 ELSE /\ p = NoPoolCall
                      /\ UNCHANGED poolCalls
            /\ IF drv.pool /\ PoolGranted(p)
                 THEN /\ n = NoCall
                      /\ poolFree' = poolFree \ {p.id}
                      /\ NetworkMode' = [NetworkMode EXCEPT ![c] = ContainerMode(p.id)]
                      /\ poolId' = [poolId EXCEPT ![c] = p.id]
                      /\ UNCHANGED <<netId, netFree, netCalls>>
                 ELSE /\ n \in AllocNetworkResults
                      /\ netCalls' = [netCalls EXCEPT ![c] =
                             Append(@, [fn |-> "AllocNetwork", id |-> n])]
                      /\ netFree' = netFree \ {n}
                      /\ IF n # Empty
                           THEN /\ NetworkMode' = [NetworkMode EXCEPT ![c] = n]
                                /\ netId' = [netId EXCEPT ![c] = n]
                           ELSE UNCHANGED <<NetworkMode, netId>>
                      /\ UNCHANGED <<poolFree, poolId>>
    /\ UNCHANGED <<envVars, pullVars, Hostname, CPUQuota, CPUPeriod, image, containerCreated, exited,
                   containers, cacheCalls, dockerCalls, retVars>>

\* A configureHostname that does not look at the network mode.
NetworkModeSet_Ignored(c) == FALSE

\* configureHostname's test: a network mode was configured.
NetworkModeSet(c) == NetworkMode[c] # Empty

\* cookie.configureHostname
configureHostname(c) ==
    /\ c \in tasks
    /\ ~exited
    /\ pc[c] = "configureHostname"
    /\ pc' = [pc EXCEPT ![c] = NextStep("configureHostname")]
    /\ IF NetworkModeSet(c)
         THEN UNCHANGED Hostname
         ELSE Hostname' = [Hostname EXCEPT ![c] = drv.hostname]
    /\ UNCHANGED <<envVars, pullVars, poolId, netId, NetworkMode, CPUQuota, CPUPeriod, image,
                   containerCreated, exited, poolFree, netFree, containers, callVars,
                   retVars>>

\* What ImageInspectWithRaw can return: no such image, another error, or the
\* image, which declares volumes or not.
InspectResults ==
    [err : {ErrNoSuchImage, ErrRuntime}, id : {NoImage}, volumes : {FALSE}]
        \cup [err : {Nil}, id : ImageIds, volumes : BOOLEAN]

\* ValidateImage's check that the image has no volumes the driver forbids.
PolicyError(img) ==
    IF ~drv.ImageEnableVolume /\ img.volumes THEN ErrImageWithVolume ELSE Nil

\* A ValidateImage that marks the record busy whatever the policy check said.
ClaimCall_AlwaysBusy(err, rec) == [fn |-> "MarkBusy", rec |-> rec]

\* The call ValidateImage makes to the image cache for the record it captured.
ClaimCall(err, rec) ==
    IF err = ErrImageWithVolume
      THEN [fn |-> "Update", rec |-> rec]
      ELSE [fn |-> "MarkBusy", rec |-> rec]

\* A ValidateImage that does not look for a record the cookie already holds.
AlreadyValidated_Unchecked(c) == FALSE

\* ValidateImage's first test: the cookie holds an image record.
AlreadyValidated(c) == image[c] # NoImage

\* A ValidateImage for which "no such image" is an error like the others.
NoSuchImage_AsError(img) == FALSE

\* ValidateImage's test of the inspection's error for "no such image".
NoSuchImage(img) == img.err = ErrNoSuchImage

\* cookie.ValidateImage, with img the result of ImageInspectWithRaw should the
\* code get to call it.
ValidateImage(c, img) ==
    /\ c \in tasks
    /\ ~exited
    /\ pc[c] = "ready"
    /\ IF AlreadyValidated(c)
         THEN /\ img = NoInspect
              /\ ret' = Ret(c, "ValidateImage", FALSE, Nil)
              /\ UNCHANGED <<image, cacheCalls>>
       ELSE IF img \notin InspectResults
         THEN FALSE
       ELSE IF NoSuchImage(img)
         THEN /\ ret' = Ret(c, "ValidateImage", TRUE, Nil)
              /\ UNCHANGED <<image, cacheCalls>>
       ELSE IF img.err # Nil
         THEN /\ ret' = Ret(c, "ValidateImage", FALSE, img.err)
              /\ UNCHANGED <<image, cacheCalls>>
       ELSE LET err == PolicyError(img)
            IN /\ image' = [image EXCEPT ![c] = img.id]
               /\ IF drv.imgCache
                    THEN cacheCalls' = [cacheCalls EXCEPT ![c] =
                             Append(@, ClaimCall(err, img.id))]
                    ELSE UNCHANGED cacheCalls
               /\ ret' = Ret(c, "ValidateImage", FALSE, err)
    /\ lastValidate' = [lastValidate EXCEPT ![c] = ret']
    /\ UNCHANGED <<envVars, pullVars, pc, poolId, netId, NetworkMode, Hostname, CPUQuota, CPUPeriod,
                   containerCreated, exited, poolFree, netFree, containers, poolCalls,
                   netCalls, dockerCalls, createRets>>

\* What the task's DockerAuth can return.
AuthResults == {Nil, ErrAuth}

\* What the puller can send on its completion channel.
PullResults == {Nil, ErrPull}

\* A PullImage that pulls whether or not the cookie holds an image record.
PullNotNeeded_Unchecked(c) == FALSE

\* PullImage's first test: the cookie holds an image record.
PullNotNeeded(c) == image[c] # NoImage

\* authImage's test of what DockerAuth returned.
AuthFailed(a) == a # Nil

\* cookie.PullImage up to its receive from the puller's channel (with
\* cookie.authImage), with a the result of the task's DockerAuth should the
\* code get to call it. The puller is invoked exactly when the cookie goes on
\* to "PullImage", where it waits on the channel the puller returned.
PullImage(c, a) ==
    /\ c \in tasks
    /\ ~exited
    /\ pc[c] = "ready"
    /\ IF PullNotNeeded(c)
         THEN /\ a = NoCall
              /\ ret' = Ret(c, "PullImage", FALSE, Nil)
              /\ UNCHANGED <<pc, errC>>
       ELSE IF ~task[c].Auther
         THEN /\ a = NoCall
              /\ pc' = [pc EXCEPT ![c] = "PullImage"]
              /\ errC' = [errC EXCEPT ![c] = EmptyChan]
              /\ UNCHANGED ret
       ELSE IF a \notin AuthResults
         THEN FALSE
       ELSE IF AuthFailed(a)
         THEN /\ ret' = Ret(c, "PullImage", FALSE, a)
              /\ UNCHANGED <<pc, errC>>
       ELSE /\ pc' = [pc EXCEPT ![c] = "PullImage"]
            /\ errC' = [errC EXCEPT ![c] = EmptyChan]
            /\ UNCHANGED ret
    /\ UNCHANGED <<envVars, cookieVars, ctxDone, exited, poolFree, netFree, containers,
                   callVars, lastValidate, createRets>>

\* The caller's context is cancelled while PullImage waits.
CancelContext(c) ==
    /\ c \in tasks
    /\ ~exited
    /\ pc[c] = "PullImage"
    /\ ~ctxDone[c]
    /\ ctxDone' = [ctxDone EXCEPT ![c] = TRUE]
    /\ UNCHANGED <<envVars, pc, cookieVars, errC, exited, poolFree, netFree, containers,
                   callVars, retVars>>

\* The puller sends v on its completion channel: the outcome of the pull, or
\* the context's error once the context is cancelled. Nothing in the cookie
\* makes the puller send.
PullerSend(c, v) ==
    /\ c \in tasks
    /\ ~exited
    /\ pc[c] = "PullImage"
    /\ errC[c] = EmptyChan
    /\ v \in PullResults \/ (v = ErrCanceled /\ ctxDone[c])
    /\ errC' = [errC EXCEPT ![c] = v]
    /\ UNCHANGED <<envVars, pc, cookieVars, ctxDone, exited, poolFree, netFree, containers,
                   callVars, retVars>>

\* PullImage's return <-errC: it receives what the puller sent and returns it.
PullImageReturn(c) ==
    /\ c \in tasks
    /\ ~exited
    /\ pc[c] = "PullImage"
    /\ errC[c] \notin {NoChan, EmptyChan}
    /\ ret' = Ret(c, "PullImage", FALSE, errC[c])
    /\ pc' = [pc EXCEPT ![c] = "ready"]
    /\ errC' = [errC EXCEPT ![c] = NoChan]
    /\ ctxDone' = [ctxDone EXCEPT ![c] = FALSE]
    /\ UNCHANGED <<envVars, cookieVars, exited, poolFree, netFree, containers, callVars,
                   lastValidate, createRets>>

\* What the runtime's ContainerCreate can return.
CreateResults == {Nil, ErrNoSuchImage, ErrRuntime}

\* A CreateContainer without the precondition check.
NotValidated_Unchecked(c) == FALSE

\* A CreateContainer that makes the precondition check only once it has run.
NotValidated_AfterCreate(c) == image[c] = NoImage /\ containerCreated[c]

\* CreateContainer's precondition check: no image record was captured.
NotValidated(c) == image[c] = NoImage

\* A CreateContainer that does not remember it has run.
AlreadyCreated_Forgotten(c) == FALSE

\* CreateContainer's check that it has run before.
AlreadyCreated(c) == containerCreated[c]

\* A CreateContainer that returns the runtime's error as it is.
CreateError_Unmapped(res) == res

\* What CreateContainer returns for the runtime's result.
CreateError(res) == IF res = ErrNoSuchImage THEN ErrCallTimeoutServerBusy ELSE res

\* cookie.CreateContainer, with res the result of the runtime's ContainerCreate
\* should the code get to call it.
CreateContainer(c, res) ==
    /\ c \in tasks
    /\ ~exited
    /\ pc[c] = "ready"
    /\ Len(createRets[c]) < MaxCreateCalls
    /\ IF NotValidated(c)
         THEN /\ res = NoCall
              /\ exited' = TRUE
              /\ UNCHANGED <<containerCreated, containers, dockerCalls, ret, createRets>>
       ELSE IF AlreadyCreated(c)
         THEN /\ res = NoCall
              /\ ret' = Ret(c, "CreateContainer", FALSE, Nil)
              /\ createRets' = [createRets EXCEPT ![c] = Append(@, Nil)]
              /\ UNCHANGED <<containerCreated, containers, dockerCalls, exited>>
       ELSE /\ res \in CreateResults
            /\ dockerCalls' = [dockerCalls EXCEPT ![c] =
                    Append(@, [fn |-> "ContainerCreate", ID |-> c])]
            /\ containers' = IF res = Nil THEN containers \cup {c} ELSE containers
            /\ containerCreated' = [containerCreated EXCEPT ![c] = TRUE]
            /\ LET err == CreateError(res)
               IN /\ ret' = Ret(c, "CreateContainer", FALSE, err)
                  /\ createRets' = [createRets EXCEPT ![c] = Append(@, err)]
            /\ UNCHANGED exited
    /\ UNCHANGED <<envVars, pullVars, pc, poolId, netId, NetworkMode, Hostname, CPUQuota, CPUPeriod,
                   image, poolFree, netFree, poolCalls, netCalls, cacheCalls, lastValidate>>

\* What a call to the runtime that only reports an error can return.
CallResults == {Nil, ErrRuntime}

\* cookie.Run
Run(c, res) ==
    /\ c \in tasks
    /\ ~exited
    /\ pc[c] = "ready"
    /\ res \in CallResults
    /\ ret' = Ret(c, "Run", FALSE, res)
    /\ UNCHANGED <<envVars, pullVars, pc, cookieVars, exited, poolFree, netFree, containers,
                   callVars, lastValidate, createRets>>

\* cookie.Freeze
Freeze(c, res) ==
    /\ c \in tasks
    /\ ~exited
    /\ pc[c] = "ready"
    /\ res \in CallResults
    /\ ret' = Ret(c, "Freeze", FALSE, res)
    /\ UNCHANGED <<envVars, pullVars, pc, cookieVars, exited, poolFree, netFree, containers,
                   callVars, lastValidate, createRets>>

\* cookie.Unfreeze
Unfreeze(c, res) ==
    /\ c \in tasks
    /\ ~exited
    /\ pc[c] = "ready"
    /\ res \in CallResults
    /\ ret' = Ret(c, "Unfreeze", FALSE, res)
    /\ UNCHANGED <<envVars, pullVars, pc, cookieVars, exited, poolFree, netFree, containers,
                   callVars, lastValidate, createRets>>

\* What the runtime's RemoveContainer can return for container id: an error
\* when there is no such container, nil or an error when there is.
RemoveResults(id) == IF id \in containers THEN {Nil, ErrRuntime} ELSE {ErrRuntime}

\* A removal that is not forced.
RemoveContainerOptions_NoForce(c) ==
    [fn |-> "RemoveContainer", ID |-> c, Force |-> FALSE, RemoveVolumes |-> TRUE]

\* The options Close passes to the runtime's RemoveContainer.
RemoveContainerOptions(c) ==
    [fn |-> "RemoveContainer", ID |-> c, Force |-> TRUE, RemoveVolumes |-> TRUE]

\* Close's first step: remove the container if one was created; err is what
\* Close will return.
CloseRemoveContainer(c, res) ==
    IF containerCreated[c]
      THEN /\ res \in RemoveResults(c)
           /\ dockerCalls' = [dockerCalls EXCEPT ![c] = Append(@, RemoveContainerOptions(c))]
           /\ containers' = IF res = Nil THEN containers \ {c} ELSE containers
           /\ ret' = Ret(c, "Close", FALSE, res)
      ELSE /\ res = NoCall
           /\ UNCHANGED <<dockerCalls, containers>>
           /\ ret' = Ret(c, "Close", FALSE, Nil)

\* Close's second step: give the pool id back.
CloseFreePoolId(c) ==
    IF poolId[c] # Empty /\ drv.pool
      THEN /\ poolCalls' = [poolCalls EXCEPT ![c] =
                  Append(@, [fn |-> "FreePoolId", id |-> poolId[c]])]
           /\ poolFree' = poolFree \cup {poolId[c]}
      ELSE UNCHANGED <<poolCalls, poolFree>>

\* A Close that keeps the network id.
CloseFreeNetwork_Skipped(c) == UNCHANGED <<netCalls, netFree>>

\* Close's third step: give the network id back.
CloseFreeNetwork(c) ==
    IF netId[c] # Empty
      THEN /\ netCalls' = [netCalls EXCEPT ![c] =
                  Append(@, [fn |-> "FreeNetwork", id |-> netId[c]])]
           /\ netFree' = netFree \cup {netId[c]}
      ELSE UNCHANGED <<netCalls, netFree>>

\* A Close that leaves the image record busy.
CloseMarkFree_Skipped(c) == UNCHANGED cacheCalls

\* A Close that tells the image cache whether or not a record was captured.
CloseMarkFree_Unclaimed(c) ==
    IF drv.imgCache
      THEN cacheCalls' = [cacheCalls EXCEPT ![c] =
               Append(@, [fn |-> "MarkFree", rec |-> image[c]])]
      ELSE UNCHANGED cacheCalls

\* Close's last step: tell the image cache the record is no longer in use.
CloseMarkFree(c) ==
    IF image[c] # NoImage /\ drv.imgCache
      THEN cacheCalls' = [cacheCalls EXCEPT ![c] =
               Append(@, [fn |-> "MarkFree", rec |-> image[c]])]
      ELSE UNCHANGED cacheCalls

\* A Close that returns as soon as the container removal fails.
Close_StopsOnRemoveError(c, res) ==
    /\ c \in tasks
    /\ ~exited
    /\ pc[c] = "ready"
    /\ pc' = [pc EXCEPT ![c] = "closed"]
    /\ CloseRemoveContainer(c, res)
    /\ IF containerCreated[c] /\ res # Nil
         THEN UNCHANGED <<poolCalls, poolFree, netCalls, netFree, cacheCalls>>
         ELSE CloseFreePoolId(c) /\ CloseFreeNetwork(c) /\ CloseMarkFree(c)
    /\ UNCHANGED <<envVars, pullVars, cookieVars, exited, lastValidate, createRets>>

\* cookie.Close, with res the result of the runtime's RemoveContainer (NoCall
\* when the code does not call it).
Close(c, res) ==
    /\ c \in tasks
    /\ ~exited
    /\ pc[c] = "ready"
    /\ pc' = [pc EXCEPT ![c] = "closed"]
    /\ CloseRemoveContainer(c, res)
    /\ CloseFreePoolId(c)
    /\ CloseFreeNetwork(c)
    /\ CloseMarkFree(c)
    /\ UNCHANGED <<envVars, pullVars, cookieVars, exited, lastValidate, createRets>>

Next ==
    \E c \in Cookies :
        \/ configureCPU(c)
        \/ \E p \in [id : PoolIds \cup {Empty}, err : {Nil, ErrRuntime}] \cup {NoPoolCall},
              n \in NetIds \cup {Empty, NoCall} : configureNetwork(c, p, n)
        \/ configureHostname(c)
        \/ \E img \in InspectResults \cup {NoInspect} : ValidateImage(c, img)
        \/ \E a \in AuthResults \cup {NoCall} : PullImage(c, a)
        \/ CancelContext(c)
        \/ \E v \in PullResults \cup {ErrCanceled} : PullerSend(c, v)
        \/ PullImageReturn(c)
        \/ \E res \in CreateResults \cup {NoCall} : CreateContainer(c, res)
        \/ \E res \in CallResults : Run(c, res)
        \/ \E res \in CallResults : Freeze(c, res)
        \/ \E res \in CallResults : Unfreeze(c, res)
        \/ \E res \in CallResults \cup {NoCall} : Close(c, res)

Spec == Init /\ [][Next]_vars

SpecShared == InitShared /\ [][Next]_vars

\* One task, where a PullImage that can receive from the channel does.
SpecPull == Spec /\ \A c \in Cookies : WF_vars(PullImageReturn(c))

(***************************************************************************)
(* Helpers for reading the call logs.                                      *)
(***************************************************************************)
\* The calls to fn in a call log, in order.
CallsTo(log, fn) == SelectSeq(log, LAMBDA e : e.fn = fn)

\* How many times a log holds a call to fn for id.
CountId(log, fn, id) == Cardinality({i \in DOMAIN log : log[i].fn = fn /\ log[i].id = id})

\* The claims a cookie took on the image cache.
ClaimsTaken(c) == SelectSeq(cacheCalls[c], LAMBDA e : e.fn \in {"MarkBusy", "Update"})

\* The values a sequence holds.
Range(seq) == {seq[i] : i \in DOMAIN seq}

CloseArgs == CallResults \cup {NoCall}
CreateArgs == CreateResults \cup {NoCall}
AuthArgs == AuthResults \cup {NoCall}
InspectArgs == InspectResults \cup {NoInspect}
PoolArgs == [id : PoolIds \cup {Empty}, err : {Nil, ErrRuntime}] \cup {NoPoolCall}
NetArgs == NetIds \cup {Empty, NoCall}

(***************************************************************************)
(* C1. Whatever the calls on each cookie and however the cookies           *)
(* interleave over the shared pool and network allocator: an id is freed   *)
(* only by a cookie's Close, a closed cookie has freed each id it was      *)
(* granted exactly once and no other id, and once every cookie is closed   *)
(* the allocators have all their ids back.                                 *)
(***************************************************************************)
C1_GrantsFreedExactlyOnce ==
    /\ \A c \in Cookies :
        /\ \A id \in PoolIds :
             CountId(poolCalls[c], "FreePoolId", id) =
                IF pc[c] = "closed" THEN CountId(poolCalls[c], "AllocPoolId", id) ELSE 0
        /\ \A id \in NetIds :
             CountId(netCalls[c], "FreeNetwork", id) =
                IF pc[c] = "closed" THEN CountId(netCalls[c], "AllocNetwork", id) ELSE 0
        /\ \A i \in DOMAIN poolCalls[c] :
             poolCalls[c][i].fn = "FreePoolId" => poolCalls[c][i].id \in PoolIds
        /\ \A i \in DOMAIN netCalls[c] :
             netCalls[c][i].fn = "FreeNetwork" => netCalls[c][i].id \in NetIds
    /\ (\A c \in Cookies : pc[c] = "closed") => poolFree = PoolIds /\ netFree = NetIds

\* Both cookies closed, one after a pool grant and a failed create, the other
\* after a network grant.
C1_Witness ==
    /\ \A c \in Cookies : pc[c] = "closed"
    /\ poolId["t1"] = "p1" /\ netId["t2"] = "n1"
    /\ createRets["t1"] = <<ErrRuntime>>

(***************************************************************************)
(* C2. When CreateContainer failed (the runtime's ContainerCreate returned *)
(* an error), Close frees the grants and the cache claim, makes no         *)
(* RemoveContainer call and returns nil.                                   *)
(***************************************************************************)
C2_CloseAfterFailedCreate ==
    \A c \in Cookies :
        (pc[c] = "closed" /\ createRets[c] # <<>> /\ createRets[c][1] # Nil) =>
            /\ CallsTo(dockerCalls[c], "RemoveContainer") = <<>>
            /\ (ret.cookie = c /\ ret.op = "Close") => ret.err = Nil
            /\ poolId[c] # Empty => CountId(poolCalls[c], "FreePoolId", poolId[c]) = 1
            /\ netId[c] # Empty => CountId(netCalls[c], "FreeNetwork", netId[c]) = 1
            /\ ClaimsTaken(c) # <<>> => Len(CallsTo(cacheCalls[c], "MarkFree")) = 1

C4_BothCreatesSucceed ==
    \A c \in Cookies :
        Len(createRets[c]) >= 2 =>
            /\ Len(CallsTo(dockerCalls[c], "ContainerCreate")) <= 1
            /\ createRets[c][1] = Nil /\ createRets[c][2] = Nil

(***************************************************************************)
(* C4 as amended. The CreateContainer calls on a cookie make at most one   *)
(* ContainerCreate call between them; every call after the first returns   *)
(* nil, and the first returns nil only if the runtime's create succeeded   *)
(* (the container exists until Close removes it).                          *)
(***************************************************************************)
C4_CreateCalledOnce ==
    \A c \in Cookies :
        /\ Len(CallsTo(dockerCalls[c], "ContainerCreate")) <= 1
        /\ \A i \in DOMAIN createRets[c] : i > 1 => createRets[c][i] = Nil
        /\ createRets[c] # <<>> =>
              /\ Len(CallsTo(dockerCalls[c], "ContainerCreate")) = 1
              /\ createRets[c][1] \in {Nil, ErrCallTimeoutServerBusy, ErrRuntime}
              /\ (createRets[c][1] = Nil /\ pc[c] # "closed") => c \in containers
              /\ createRets[c][1] # Nil => c \notin containers

\* Two calls, the first of which failed.
C4_Witness == createRets["t1"] = <<ErrRuntime, Nil>>

(***************************************************************************)
(* C5. While a cookie is open, containerCreated implies that the runtime   *)
(* holds a container with the task's id.                                   *)
(***************************************************************************)
C5_CreatedImpliesContainer ==
    \A c \in Cookies :
        (containerCreated[c] /\ pc[c] # "closed") => c \in containers

(***************************************************************************)
(* C6. A Close of a cookie that took a claim on the image cache (MarkBusy  *)
(* or Update) makes exactly one cache call, MarkFree for the claimed       *)
(* record; a Close of a cookie that took none (no record captured, or no   *)
(* cache) makes no cache call. No other call of a cookie makes a MarkFree. *)
(***************************************************************************)
C6_CloseReleasesClaimOnce ==
    [][\A c \in Cookies :
          /\ \A res \in CloseArgs :
                Close(c, res) =>
                    cacheCalls'[c] =
                        IF ClaimsTaken(c) # <<>>
                          THEN Append(cacheCalls[c],
                                      [fn |-> "MarkFree", rec |-> ClaimsTaken(c)[1].rec])
                          ELSE cacheCalls[c]
          /\ pc'[c] = pc[c] =>
                CallsTo(cacheCalls'[c], "MarkFree") = CallsTo(cacheCalls[c], "MarkFree")]_vars

\* A closed cookie that had taken its claim by Update.
C6_Witness ==
    /\ pc["t1"] = "closed"
    /\ cacheCalls["t1"] = <<[fn |-> "Update", rec |-> "i1"], [fn |-> "MarkFree", rec |-> "i1"]>>

(***************************************************************************)
(* C7. Once a CreateContainer call has returned nil, Close makes exactly   *)
(* one RemoveContainer call, with the ID the ContainerCreate call was      *)
(* given, Force and RemoveVolumes; before Close there is no such call.     *)
(***************************************************************************)
C7_CloseRemovesCreated ==
    \A c \in Cookies :
        /\ pc[c] # "closed" => CallsTo(dockerCalls[c], "RemoveContainer") = <<>>
        /\ (pc[c] = "closed" /\ Nil \in Range(createRets[c])) =>
              /\ Len(CallsTo(dockerCalls[c], "ContainerCreate")) = 1
              /\ CallsTo(dockerCalls[c], "RemoveContainer") =
                    << [fn |-> "RemoveContainer",
                        ID |-> CallsTo(dockerCalls[c], "ContainerCreate")[1].ID,
                        Force |-> TRUE, RemoveVolumes |-> TRUE] >>

\* A closed cookie whose create had succeeded.
C7_Witness == pc["t1"] = "closed" /\ createRets["t1"] = <<Nil>> /\ "t1" \notin containers

(***************************************************************************)
(* C8. Close frees the pool grant, frees the network grant and marks the   *)
(* image record free also when the container removal fails and when no     *)
(* container was created; it returns the removal error if the removal      *)
(* failed, and nil otherwise.                                              *)
(***************************************************************************)
C8_CloseReleasesRegardless ==
    [][\A c \in Cookies, res \in CloseArgs :
          Close(c, res) =>
              /\ poolCalls'[c] =
                    IF poolId[c] # Empty
                      THEN Append(poolCalls[c], [fn |-> "FreePoolId", id |-> poolId[c]])
                      ELSE poolCalls[c]
              /\ netCalls'[c] =
                    IF netId[c] # Empty
                      THEN Append(netCalls[c], [fn |-> "FreeNetwork", id |-> netId[c]])
                      ELSE netCalls[c]
              /\ (image[c] # NoImage /\ drv.imgCache) =>
                    cacheCalls'[c] =
                        Append(cacheCalls[c], [fn |-> "MarkFree", rec |-> image[c]])
              /\ ret' = Ret(c, "Close", FALSE,
                            IF res = NoCall THEN Nil ELSE res)
              /\ res = NoCall <=> CallsTo(dockerCalls[c], "ContainerCreate") = <<>>]_vars

\* A Close whose container removal failed, with a pool grant and a claim.
C8_Witness ==
    /\ ret = Ret("t1", "Close", FALSE, ErrRuntime)
    /\ createRets["t1"] = <<Nil>> /\ "t1" \in containers
    /\ CallsTo(poolCalls["t1"], "FreePoolId") # <<>>
    /\ CallsTo(cacheCalls["t1"], "MarkFree") # <<>>

(***************************************************************************)
(* C9. When the inspection succeeds and the image declares a volume while  *)
(* the driver forbids image volumes, ValidateImage returns (false,         *)
(* ErrImageWithVolume), the cookie holds the image record, and the image   *)
(* cache (if the driver has one) has from this cookie exactly one call,    *)
(* Update with that record, and no MarkBusy.                               *)
(***************************************************************************)
C9_PolicyViolationUpdatesCache ==
    [][\A c \in Cookies, img \in InspectResults :
          (ValidateImage(c, img) /\ img.err = Nil /\ img.volumes /\ ~drv.ImageEnableVolume) =>
              /\ ret' = Ret(c, "ValidateImage", FALSE, ErrImageWithVolume)
              /\ image'[c] = img.id
              /\ cacheCalls'[c] =
                    IF drv.imgCache THEN <<[fn |-> "Update", rec |-> img.id]>> ELSE <<>>]_vars

\* ValidateImage has returned the policy error and the cache got the Update.
C9_Witness ==
    /\ lastValidate["t1"] = Ret("t1", "ValidateImage", FALSE, ErrImageWithVolume)
    /\ image["t1"] = "i1"
    /\ cacheCalls["t1"] = <<[fn |-> "Update", rec |-> "i1"]>>

Configured(c) == pc[c] \in {"ready", "PullImage", "closed"}

(***************************************************************************)
(* C11. After the network and hostname steps have run on a cookie, network *)
(* mode and hostname are never both set: the hostname is set exactly when  *)
(* the network mode is still empty (no "none" mode, no pool grant, no      *)
(* network grant), and configureHostname leaves the hostname alone when a  *)
(* network mode is set.                                                    *)
(***************************************************************************)
C11_ModeOrHostname ==
    /\ [](\A c \in Cookies :
            /\ ~(NetworkMode[c] # Empty /\ Hostname[c] # Empty)
            /\ Configured(c) =>
                  /\ Hostname[c] # Empty <=> NetworkMode[c] = Empty
                  /\ NetworkMode[c] = Empty <=>
                        (~task[c].DisableNet /\ poolId[c] = Empty /\ netId[c] = Empty))
    /\ [][\A c \in Cookies :
            (configureHostname(c) /\ NetworkMode[c] # Empty) =>
                Hostname'[c] = Empty /\ NetworkMode'[c] = NetworkMode[c]]_vars

\* Both steps have run on a cookie with a pool grant: mode set, no hostname.
C11_Witness ==
    /\ Configured("t1") /\ poolId["t1"] = "p1"
    /\ NetworkMode["t1"] = ContainerMode("p1") /\ Hostname["t1"] = Empty

\* A cookie past configureCPU.
CPUConfigured(c) == pc[c] # "configureCPU"

(***************************************************************************)
(* C12. For every CPU request V > 0 (an unsigned 64-bit count of           *)
(* milli-CPUs) the configured signed 64-bit CPU quota is the product       *)
(* V * 100 as a number and the CPU period is 100000; for V = 0 neither is  *)
(* set.                                                                    *)
(***************************************************************************)
C12_QuotaIsProduct ==
    \A c \in Cookies :
        CPUConfigured(c) =>
            IF task[c].CPUs = Zero64
              THEN CPUQuota[c] = Int64(Zero64) /\ CPUPeriod[c] = 0
              ELSE /\ MathMul(task[c].CPUs, 100).high = 0
                   /\ CPUQuota[c] = [neg |-> FALSE, mag |-> MathMul(task[c].CPUs, 100).low]
                   /\ CPUPeriod[c] = CPUPeriodUsec

(***************************************************************************)
(* C13. When the runtime's ContainerCreate fails with "no such image",     *)
(* CreateContainer returns ErrCallTimeoutServerBusy in place of the        *)
(* runtime's error; any other failure of ContainerCreate is returned as it *)
(* is.                                                                     *)
(***************************************************************************)
C13_NoSuchImageIsBusy ==
    [][\A c \in Cookies, res \in CreateResults :
          CreateContainer(c, res) =>
              /\ CallsTo(dockerCalls'[c], "ContainerCreate") =
                    Append(CallsTo(dockerCalls[c], "ContainerCreate"),
                           [fn |-> "ContainerCreate", ID |-> c])
              /\ res = ErrNoSuchImage =>
                    ret' = Ret(c, "CreateContainer", FALSE, ErrCallTimeoutServerBusy)
              /\ res # ErrNoSuchImage => ret' = Ret(c, "CreateContainer", FALSE, res)
              /\ createRets'[c] = Append(createRets[c], ret'.err)]_vars

\* ContainerCreate was called, and CreateContainer returned the busy error.
C13_Witness ==
    /\ ret = Ret("t1", "CreateContainer", FALSE, ErrCallTimeoutServerBusy)
    /\ CallsTo(dockerCalls["t1"], "ContainerCreate") # <<>>

(***************************************************************************)
(* C14. No ContainerCreate call is ever made for a cookie whose image      *)
(* record is nil: a CreateContainer on such a cookie ends in the fatal     *)
(* outcome, without calling the runtime and without setting                *)
(* containerCreated.                                                       *)
(***************************************************************************)
C14_NoCreateWithoutImage ==
    /\ [](\A c \in Cookies :
            image[c] = NoImage =>
                /\ CallsTo(dockerCalls[c], "ContainerCreate") = <<>>
                /\ ~containerCreated[c])
    /\ [][\A c \in Cookies, res \in CreateArgs :
            (CreateContainer(c, res) /\ image[c] = NoImage) =>
                /\ res = NoCall /\ exited'
                /\ dockerCalls' = dockerCalls
                /\ containerCreated' = containerCreated
                /\ containers' = containers]_vars

\* CreateContainer ran on a cookie on which ValidateImage never ran, and
\* ended the process.
C14_Witness ==
    /\ exited /\ image["t1"] = NoImage /\ lastValidate["t1"] = NoRet
    /\ dockerCalls["t1"] = <<>> /\ ~containerCreated["t1"]

\* PullImage has called the puller and has not returned.
PullWaiting(c) == pc[c] = "PullImage"

(***************************************************************************)
(* C15. If the caller's context is cancelled while PullImage is waiting    *)
(* for the puller's completion signal, PullImage eventually returns, even  *)
(* if the puller never sends on its completion channel.                    *)
(***************************************************************************)
C15_CancelledPullReturns ==
    \A c \in Cookies : (PullWaiting(c) /\ ctxDone[c]) ~> ~PullWaiting(c)

(***************************************************************************)
(* C16. ValidateImage on a cookie that holds an image record returns       *)
(* (false, nil) without inspecting the runtime and without a call to the   *)
(* image cache, so a cookie makes at most one claim-taking cache call      *)
(* (MarkBusy or Update) in all.                                            *)
(***************************************************************************)
C16_RevalidateIsNoOp ==
    /\ [](\A c \in Cookies : Len(ClaimsTaken(c)) <= 1)
    /\ [][\A c \in Cookies, img \in InspectArgs :
            (ValidateImage(c, img) /\ image[c] # NoImage) =>
                /\ img = NoInspect
                /\ ret' = Ret(c, "ValidateImage", FALSE, Nil)
                /\ image' = image /\ cacheCalls' = cacheCalls]_vars

\* ValidateImage returned (false, nil) on a cookie whose record was captured
\* by an earlier ValidateImage, the one that made the Update call.
C16_Witness ==
    /\ ret = Ret("t1", "ValidateImage", FALSE, Nil)
    /\ image["t1"] = "i1"
    /\ cacheCalls["t1"] = <<[fn |-> "Update", rec |-> "i1"]>>

(***************************************************************************)
(* C17. When the inspection reports "no such image" or fails with another  *)
(* error, ValidateImage leaves the cookie's image record nil and makes no  *)
(* cache call; it returns (true, nil) for "no such image" and (false, the  *)
(* error) for any other failure.                                           *)
(***************************************************************************)
C17_FailedInspectCapturesNothing ==
    [][\A c \in Cookies, img \in InspectResults :
          (ValidateImage(c, img) /\ img.err # Nil) =>
              /\ image'[c] = NoImage
              /\ cacheCalls' = cacheCalls
              /\ img.err = ErrNoSuchImage => ret' = Ret(c, "ValidateImage", TRUE, Nil)
              /\ img.err # ErrNoSuchImage => ret' = Ret(c, "ValidateImage", FALSE, img.err)
              /\ lastValidate'[c] = ret']_vars

\* ValidateImage returned the inspection's error and captured nothing.
C17_Witness ==
    /\ ret = Ret("t1", "ValidateImage", FALSE, ErrRuntime)
    /\ image["t1"] = NoImage /\ cacheCalls["t1"] = <<>> /\ drv.imgCache

(***************************************************************************)
(* C18. PullImage on a cookie that holds an image record returns nil and   *)
(* calls neither the task's authenticator nor the puller; when the task's  *)
(* authenticator returns an error, PullImage returns that error and does   *)
(* not call the puller. The puller is only ever awaited by a cookie        *)
(* without an image record.                                                *)
(***************************************************************************)
C18_NoPullWhenHeldOrAuthFails ==
    /\ [](\A c \in Cookies : (PullWaiting(c) \/ errC[c] # NoChan) => image[c] = NoImage)
    /\ [][\A c \in Cookies, a \in AuthArgs :
            /\ (PullImage(c, a) /\ image[c] # NoImage) =>
                  /\ a = NoCall
                  /\ ~PullWaiting(c)' /\ errC' = errC
                  /\ ret' = Ret(c, "PullImage", FALSE, Nil)
            /\ (PullImage(c, a) /\ a = ErrAuth) =>
                  /\ task[c].Auther
                  /\ ~PullWaiting(c)' /\ errC' = errC
                  /\ ret' = Ret(c, "PullImage", FALSE, ErrAuth)
            /\ (PullImage(c, a) /\ PullWaiting(c)') =>
                  /\ image[c] = NoImage
                  /\ a = IF task[c].Auther THEN Nil ELSE NoCall]_vars

\* PullImage returned nil on a cookie holding an image record.
C18_Witness ==
    /\ ret = Ret("t1", "PullImage", FALSE, Nil)
    /\ image["t1"] = "i1" /\ errC["t1"] = NoChan

(***************************************************************************)
(* C19. Once ValidateImage has returned the image-with-volume policy error *)
(* for a cookie, the ValidateImage calls that follow on that cookie return *)
(* an error too, so that a CreateContainer made when the last              *)
(* ValidateImage returned (false, nil) never calls the runtime's           *)
(* ContainerCreate for an image that was reported to the cache (Update) as *)
(* violating the policy.                                                   *)
(***************************************************************************)
C19_PolicyErrorSticks ==
    [][\A c \in Cookies :
          /\ \A img \in InspectArgs :
                (/\ ValidateImage(c, img)
                 /\ lastValidate[c] = Ret(c, "ValidateImage", FALSE, ErrImageWithVolume))
                => ret'.err # Nil
          /\ \A res \in CreateResults :
                (/\ CreateContainer(c, res)
                 /\ lastValidate[c] = Ret(c, "ValidateImage", FALSE, Nil))
                => CallsTo(cacheCalls[c], "Update") = <<>>]_vars

\* The k-th call in a cookie's log of cache calls is to fn, for record rec.
IsCacheCall(c, k, fn, rec) == cacheCalls[c][k].fn = fn /\ cacheCalls[c][k].rec = rec

\* The number of calls to fn for record rec that the image cache got.
CacheCount(fn, rec) ==
    Cardinality(UNION {{<<c, k>> : k \in {j \in DOMAIN cacheCalls[c] :
                                                IsCacheCall(c, j, fn, rec)}} :
                       c \in Cookies})

(***************************************************************************)
(* C20 as stated. With cookies sharing one image cache, every MarkFree     *)
(* call of a cookie is preceded by a MarkBusy call of the same cookie for  *)
(* the same record, so that for each record the cache gets no more         *)
(* MarkFree calls than MarkBusy calls.                                     *)
(***************************************************************************)
C20_FreeAfterBusy ==
    /\ \A c \in Cookies : \A k \in DOMAIN cacheCalls[c] :
          cacheCalls[c][k].fn = "MarkFree" =>
              \E j \in 1 .. (k - 1) : IsCacheCall(c, j, "MarkBusy", cacheCalls[c][k].rec)
    /\ \A rec \in ImageIds : CacheCount("MarkFree", rec) <= CacheCount("MarkBusy", rec)

(***************************************************************************)
(* C20 as amended. With cookies sharing one image cache, every MarkFree    *)
(* call of a cookie is the call right after the one claim-taking call      *)
(* (MarkBusy, or Update on the policy violation) of the same cookie for    *)
(* the same record, so that for each record the cache gets no more         *)
(* MarkFree calls than MarkBusy and Update calls together.                 *)
(***************************************************************************)
C20_FreeAfterClaim ==
    /\ \A c \in Cookies : \A k \in DOMAIN cacheCalls[c] :
          cacheCalls[c][k].fn = "MarkFree" =>
              /\ k = 2
              /\ \/ IsCacheCall(c, 1, "MarkBusy", cacheCalls[c][k].rec)
                 \/ IsCacheCall(c, 1, "Update", cacheCalls[c][k].rec)
    /\ \A rec \in ImageIds :
          CacheCount("MarkFree", rec) <=
              CacheCount("MarkBusy", rec) + CacheCount("Update", rec)

\* Two closed cookies of one record: one had marked it busy, the other had
\* reported it for the policy violation, and both have marked it free.
C20_Witness ==
    /\ cacheCalls["t1"] = <<[fn |-> "Update", rec |-> "i1"], [fn |-> "MarkFree", rec |-> "i1"]>>
    /\ cacheCalls["t2"] = <<[fn |-> "MarkBusy", rec |-> "i1"], [fn |-> "MarkFree", rec |-> "i1"]>>
====
